---- MODULE Spec2Model ----
(***************************************************************************)
(* A model of the IChancy agent-panel client (src/ichancy_api.py) and of   *)
(* the username generation of the provisioning flow                        *)
(* (src/ichancy_create_account.py).                                        *)
(*                                                                         *)
(* One client object talks to a Redis store (three keys) and to the remote *)
(* service.  The remote service is adversarial: every request draws its    *)
(* response from a small set (status, body decodable or not, challenge     *)
(* marker in the body or not, shape of the "result" field), or faults at   *)
(* transport level.  Time is the wall clock in minutes, advanced by Tick.  *)
(***************************************************************************)
EXTENDS Integers, Sequences, FiniteSets, TLC

VARIABLES
    SESSION_DURATION_MIN,   \* self.SESSION_DURATION_MIN  (ichancy_api.py:65)
    MAX_SESSION_AGE_HOURS,  \* self.MAX_SESSION_AGE_HOURS (ichancy_api.py:66)
    now,                    \* datetime.utcnow(), in minutes
    redis,                  \* the store: a function from the keys present to their values
    scraper,                \* self.scraper is not None
    is_logged_in,           \* self.is_logged_in
    stack,                  \* call stack of the top-level call in progress (top = last)
    ev,                     \* history: the ensure_login / login step just taken
    lastWrap,               \* history: the with_retry frame that finished last
    outcome                 \* history: how the last top-level call ended

vars == <<SESSION_DURATION_MIN, MAX_SESSION_AGE_HOURS, now, redis, scraper,
          is_logged_in, stack, ev, lastWrap, outcome>>

(***************************************************************************)
(* Bounds of the model.                                                    *)
(***************************************************************************)
TickMinutes     == 30   \* granularity of the clock, in minutes
MaxClockTicks   == 2    \* the clock runs over 0 .. MaxClockTicks * TickMinutes
MaxSessionMin   == 90   \* ICHANCY_SESSION_MIN is 0, one tick, or MaxSessionMin
MaxAgeHours     == 1    \* ICHANCY_MAX_SESSION_HOURS ranges over 0 .. MaxAgeHours
MaxBalance      == 1    \* balances of the records of a result list: 1 .. MaxBalance
MaxSuffix       == 1    \* random suffixes of generate_username: 1 .. MaxSuffix
NumCallers      == 2    \* threads that call the shared client at the same time
MaxEmailProbes  == 2    \* the email probes of one loop are counted up to here

(***************************************************************************)
(* Program constants.                                                      *)
(***************************************************************************)
MinutesPerHour  == 60   \* timedelta(hours=h) against timedelta(minutes=m)
OK_STATUS       == 200  \* "status != 200" in with_retry
UsernameAttemptsOffByOne == 6 + 1   \* faulty variant: range(7)
UsernameAttempts == 6   \* range(6) in generate_username

REDIS_COOKIES_KEY        == "ichancy:cookies"
REDIS_SESSION_EXPIRY_KEY == "ichancy:session_expiry"
REDIS_LAST_LOGIN_KEY     == "ichancy:last_login"
RedisKeys == {REDIS_COOKIES_KEY, REDIS_SESSION_EXPIRY_KEY, REDIS_LAST_LOGIN_KEY}

ClockValues   == {k * TickMinutes : k \in 0..MaxClockTicks}
DurationChoices == {0, TickMinutes, MaxSessionMin}
AgeChoices    == 0..MaxAgeHours
Statuses      == {OK_STATUS, 403}

(***************************************************************************)
(* Remote responses.  kind "fault" is a transport-level exception raised   *)
(* by scraper.post; kind "http" is a response with                         *)
(*   json    resp.json() decodes the body (to a JSON object)               *)
(*   marker  the body text contains "captcha" or "cloudflare" in some case *)
(*   result  the body's "result" member: absent, true, false, an empty     *)
(*           list, a non-empty list of balance records, or an object with  *)
(*           a "records" listing                                           *)
(*   hit     the records listing holds a record equal to the queried name  *)
(*   balance the "balance" member of the first record of a result list     *)
(***************************************************************************)
Response(kind, status, json, marker, result, hit, balance) ==
    [kind |-> kind, status |-> status, json |-> json, marker |-> marker,
     result |-> result, hit |-> hit, balance |-> balance]

NoResponse    == Response("none", 0, FALSE, FALSE, "absent", FALSE, 0)
TransportFault == Response("fault", 0, FALSE, FALSE, "absent", FALSE, 0)

\* bodies that do not decode: plain garbage, or a challenge page
UndecodableResponses ==
    {Response("http", s, FALSE, m, "absent", FALSE, 0) : s \in Statuses, m \in BOOLEAN}

FlagResponses ==
    {Response("http", s, TRUE, m, r, FALSE, 0) :
        s \in Statuses, m \in BOOLEAN, r \in {"absent", "true", "false"}}

SigninResponses  == {TransportFault} \cup UndecodableResponses \cup FlagResponses

DepositResponses ==
    {TransportFault} \cup UndecodableResponses
    \cup {Response("http", s, TRUE, m, r, FALSE, 0) :
            s \in Statuses, m \in BOOLEAN, r \in {"true", "false"}}

BalanceResponses ==
    {TransportFault} \cup UndecodableResponses
    \cup {Response("http", s, TRUE, m, r, FALSE, 0) :
            s \in Statuses, m \in BOOLEAN, r \in {"absent", "empty_list"}}
    \cup {Response("http", s, TRUE, m, "list", FALSE, b) :
            s \in Statuses, m \in BOOLEAN, b \in 1..MaxBalance}

StatisticsResponses ==
    {TransportFault} \cup UndecodableResponses
    \cup {Response("http", s, TRUE, FALSE, "records", h, 0) :
            s \in Statuses, h \in BOOLEAN}

\* the answers of the register endpoint drawn for create_player: a fault, an
\* acceptance, a refusal
RegisterResponses ==
    {TransportFault,
     Response("http", OK_STATUS, TRUE, FALSE, "true", FALSE, 0),
     Response("http", 403, TRUE, FALSE, "false", FALSE, 0)}

\* the answers of the statistics endpoint drawn for get_player_id_by_login: a
\* fault, or a listing that holds the queried login or not
LookupResponses ==
    {TransportFault}
    \cup {Response("http", OK_STATUS, TRUE, FALSE, "records", h, 0) : h \in BOOLEAN}

(***************************************************************************)
(* Python values returned by the operations, as one record shape:          *)
(*   kind "None" | "bool" (flag) | "tuple" (status, data[, balance])       *)
(*        | "str" (the username ZEUS_<base>[_<suffix>], by idx and suffix, *)
(*          or a player id)                                                *)
(* The decoded body `data` of a tuple is kept by what with_retry reads of  *)
(* it: whether str(data) holds a challenge marker, and its "result".       *)
(***************************************************************************)
Value(kind, status, marker, result, flag, balance, idx, suffix) ==
    [kind |-> kind, status |-> status, marker |-> marker, result |-> result,
     flag |-> flag, balance |-> balance, idx |-> idx, suffix |-> suffix]

NoneV      == Value("None", 0, FALSE, "absent", FALSE, 0, 0, 0)
BoolV(b)   == Value("bool", 0, FALSE, "absent", b, 0, 0, 0)
NameV(i, s) == Value("str", 0, FALSE, "absent", FALSE, 0, i, s)
PlayerIdV  == Value("str", 0, FALSE, "absent", TRUE, 0, 0, 0)

\* try: data = resp.json()  except Exception: data = {}
DataMarker(resp) == resp.json /\ resp.marker
DataResult(resp) == IF resp.json THEN resp.result ELSE "absent"

\* Python truth of data.get("result", default)
Truthy(result, default) ==
    CASE result = "absent"     -> default
      [] result = "true"       -> TRUE
      [] result = "false"      -> FALSE
      [] result = "empty_list" -> FALSE
      [] result = "list"       -> TRUE
      [] result = "records"    -> TRUE

(***************************************************************************)
(* The Redis store.  Timestamps are stored as ISO-8601 strings             *)
(* (datetime.isoformat) and read back with datetime.fromisoformat; the     *)
(* stored string is modelled as a tagged pair, the time as minutes.        *)
(***************************************************************************)
isoformat(t)     == <<"iso", t>>
fromisoformat(s) == s[2]

RedisSet(r, k, v) == [x \in (DOMAIN r) \cup {k} |-> IF x = k THEN v ELSE r[x]]
RedisDelete(r, k) == [x \in (DOMAIN r) \ {k} |-> r[x]]
RedisHas(r, k)    == k \in DOMAIN r      \* redis.get(k) is a non-empty string

EmptyStore == [x \in {} |-> 0]

\* the in-process session of the client, as the functions below take and return it
Session(r, sc, li) == [redis |-> r, scraper |-> sc, is_logged_in |-> li]
Self == Session(redis, scraper, is_logged_in)

\* faulty variant: the maximum-session-age rule is forgotten
IsSessionValidNoAge(r, t) ==
    IF ~RedisHas(r, REDIS_SESSION_EXPIRY_KEY) \/ ~RedisHas(r, REDIS_LAST_LOGIN_KEY)
    THEN FALSE
    ELSE t < fromisoformat(r[REDIS_SESSION_EXPIRY_KEY])

\* _is_session_valid, at time t
IsSessionValid(r, t) ==
    IF ~RedisHas(r, REDIS_SESSION_EXPIRY_KEY) \/ ~RedisHas(r, REDIS_LAST_LOGIN_KEY)
    THEN FALSE
    ELSE LET session_expiry   == fromisoformat(r[REDIS_SESSION_EXPIRY_KEY])
             last_login_time  == fromisoformat(r[REDIS_LAST_LOGIN_KEY])
             max_session_age  == MAX_SESSION_AGE_HOURS * MinutesPerHour
             time_since_login == t - last_login_time
         IN  (t < session_expiry) /\ (time_since_login < max_session_age)

\* faulty variant: the expiry is written without the session duration
SaveSessionNoDuration(r, t) ==
    RedisSet(RedisSet(RedisSet(r, REDIS_COOKIES_KEY, "jar"),
                      REDIS_SESSION_EXPIRY_KEY, isoformat(t)),
             REDIS_LAST_LOGIN_KEY, isoformat(t))

\* faulty variant: the last-login time is not written
SaveSessionNoLastLogin(r, t) ==
    RedisSet(RedisSet(r, REDIS_COOKIES_KEY, "jar"),
             REDIS_SESSION_EXPIRY_KEY, isoformat(t + SESSION_DURATION_MIN))

\* _save_session_to_redis, at time t: three sets in sequence
SaveSession(r, t) ==
    LET session_expiry == t + SESSION_DURATION_MIN
    IN  RedisSet(RedisSet(RedisSet(r, REDIS_COOKIES_KEY, "jar"),
                          REDIS_SESSION_EXPIRY_KEY, isoformat(session_expiry)),
                 REDIS_LAST_LOGIN_KEY, isoformat(t))

\* faulty variant: nothing is cleared
ClearSessionKeeps(s) == s

\* faulty variant: the last-login key is not deleted
ClearSessionLeavesLastLogin(s) ==
    [s EXCEPT !.redis = RedisDelete(RedisDelete(s.redis, REDIS_COOKIES_KEY),
                                    REDIS_SESSION_EXPIRY_KEY),
              !.is_logged_in = FALSE]

\* _clear_session_in_redis: three deletes, then is_logged_in = False
ClearSession(s) ==
    [s EXCEPT !.redis = RedisDelete(RedisDelete(RedisDelete(s.redis,
                            REDIS_COOKIES_KEY), REDIS_SESSION_EXPIRY_KEY),
                            REDIS_LAST_LOGIN_KEY),
              !.is_logged_in = FALSE]

\* faulty variant: the cookies key is not looked at
InitScraperTimestampsOnly(s, t) ==
    [s EXCEPT !.scraper = TRUE, !.is_logged_in = IsSessionValid(s.redis, t)]

\* _init_scraper at time t: a scraper is created; the state is authenticated
\* iff the cookies key is present and the stored timestamps are valid
InitScraper(s, t) ==
    [s EXCEPT !.scraper = TRUE,
              !.is_logged_in = RedisHas(s.redis, REDIS_COOKIES_KEY)
                               /\ IsSessionValid(s.redis, t)]

\* _check_captcha(resp.text)
CheckCaptcha(resp) == resp.marker

\* the branch of login that saves the session: no exception, no challenge
\* marker, a body that decodes, and a truthy data.get("result", False)
LoginSucceeds(resp) ==
    /\ resp.kind = "http"
    /\ ~CheckCaptcha(resp)
    /\ resp.json
    /\ Truthy(resp.result, FALSE)

\* the failure value of login
LoginError(resp) ==
    CASE resp.kind # "http"  -> "exception"
      [] CheckCaptcha(resp)  -> "captcha_detected"
      [] ~resp.json          -> "invalid_json"
      [] OTHER               -> "login_failed"

\* faulty variant: a successful login marks the state authenticated without saving
LoginNoSave(s, t, resp) ==
    LET s1 == IF s.scraper THEN s ELSE InitScraper(s, t)
    IN  IF LoginSucceeds(resp)
        THEN [sess |-> [s1 EXCEPT !.is_logged_in = TRUE], ok |-> TRUE, err |-> "none"]
        ELSE [sess |-> s1, ok |-> FALSE, err |-> LoginError(resp)]

\* faulty variant: a failed login marks the state authenticated
LoginMarksOnFailure(s, t, resp) ==
    LET s1 == IF s.scraper THEN s ELSE InitScraper(s, t)
    IN  IF LoginSucceeds(resp)
        THEN [sess |-> [s1 EXCEPT !.redis = SaveSession(s1.redis, t),
                                  !.is_logged_in = TRUE],
              ok |-> TRUE, err |-> "none"]
        ELSE [sess |-> [s1 EXCEPT !.is_logged_in = TRUE], ok |-> FALSE,
              err |-> LoginError(resp)]

\* faulty variant: a failed login drops the stored record
LoginClearsOnFailure(s, t, resp) ==
    LET s1 == IF s.scraper THEN s ELSE InitScraper(s, t)
    IN  IF LoginSucceeds(resp)
        THEN [sess |-> [s1 EXCEPT !.redis = SaveSession(s1.redis, t),
                                  !.is_logged_in = TRUE],
              ok |-> TRUE, err |-> "none"]
        ELSE [sess |-> [s1 EXCEPT !.redis = EmptyStore], ok |-> FALSE,
              err |-> LoginError(resp)]

\* login at time t, the sign-in request answered by resp
Login(s, t, resp) ==
    LET s1 == IF s.scraper THEN s ELSE InitScraper(s, t)
    IN  IF LoginSucceeds(resp)
        THEN [sess |-> [s1 EXCEPT !.redis = SaveSession(s1.redis, t),
                                  !.is_logged_in = TRUE],
              ok |-> TRUE, err |-> "none"]
        ELSE [sess |-> s1, ok |-> FALSE, err |-> LoginError(resp)]

\* faulty variant: a failed login is swallowed
EnsureLoginSwallows(s, t, resp) ==
    LET s1 == IF s.scraper THEN s ELSE InitScraper(s, t)
    IN  IF s1.is_logged_in /\ IsSessionValid(s1.redis, t)
        THEN [sess |-> s1, ok |-> TRUE, requested |-> FALSE, err |-> "none"]
        ELSE LET l == Login(s1, t, resp)
             IN  [sess |-> l.sess, ok |-> TRUE, requested |-> TRUE, err |-> l.err]

\* ensure_login at time t; resp answers the sign-in request if one is made.
\* ok = FALSE stands for the RuntimeError raised on a failed login.
EnsureLogin(s, t, resp) ==
    LET s1 == IF s.scraper THEN s ELSE InitScraper(s, t)
    IN  IF s1.is_logged_in /\ IsSessionValid(s1.redis, t)
        THEN [sess |-> s1, ok |-> TRUE, requested |-> FALSE, err |-> "none"]
        ELSE LET l == Login(s1, t, resp)
             IN  [sess |-> l.sess, ok |-> l.ok, requested |-> TRUE, err |-> l.err]

\* the answers the sign-in endpoint may give to ensure_login called in
\* session s at time t: none is drawn when it sends no request
SigninResponsesFor(s, t) ==
    IF EnsureLogin(s, t, NoResponse).requested THEN SigninResponses ELSE {NoResponse}

(***************************************************************************)
(* The operations of the Remote Operation Set, as functions of the         *)
(* response their request receives (resp.kind = "http").                   *)
(***************************************************************************)
\* deposit_to_player: (resp.status_code, data)
DepositResult(resp) ==
    Value("tuple", resp.status, DataMarker(resp), DataResult(resp), FALSE, 0, 0, 0)

\* get_player_balance: (resp.status_code, data, float(balance)); the balance
\* is that of the first record of a non-empty result list, else 0
GetPlayerBalanceResult(resp) ==
    IF ~resp.json
    THEN Value("tuple", resp.status, FALSE, "absent", FALSE, 0, 0, 0)
    ELSE Value("tuple", resp.status, resp.marker, resp.result, FALSE,
               IF resp.result = "list" THEN resp.balance ELSE 0, 0, 0)

\* the scan of data["result"]["records"] for the queried name; any exception
\* (a body that does not decode, a result without records) gives False
RecordFound(resp) == resp.json /\ resp.result = "records" /\ resp.hit

\* check_player_exists
CheckPlayerExistsResult(resp) == BoolV(RecordFound(resp))

\* check_email_exists
CheckEmailExistsResult(resp) == BoolV(RecordFound(resp))

\* get_player_id_by_login: the playerId of the record found, else None
GetPlayerIdByLoginResult(resp) == IF RecordFound(resp) THEN PlayerIdV ELSE NoneV

\* create_player: (resp.status_code, data, login, pwd, player_id), with
\* player_id the value get_player_id_by_login returned (flag: it is not None)
CreatePlayerResult(resp, player_id) ==
    Value("tuple", resp.status, DataMarker(resp), DataResult(resp),
          player_id.kind # "None", 0, 0, 0)

\* the wrapped operations whose body is one request
WrappedOps == {"deposit_to_player", "get_player_balance", "check_player_exists",
               "get_player_id_by_login"}

\* the wrapped operations whose body calls another wrapped operation
NestingOps == {"create_player", "create_player_with_credentials"}

\* the responses the endpoint of a wrapped operation may give
ResponsesOf(fn) ==
    CASE fn = "deposit_to_player"   -> DepositResponses
      [] fn = "get_player_balance"  -> BalanceResponses
      [] fn = "check_player_exists" -> StatisticsResponses
      [] fn = "get_player_id_by_login" -> LookupResponses

\* func(self, *args, **kwargs) of a wrapped operation
FuncResult(fn, resp) ==
    CASE fn = "deposit_to_player"   -> DepositResult(resp)
      [] fn = "get_player_balance"  -> GetPlayerBalanceResult(resp)
      [] fn = "check_player_exists" -> CheckPlayerExistsResult(resp)
      [] fn = "get_player_id_by_login" -> GetPlayerIdByLoginResult(resp)

(***************************************************************************)
(* with_retry: the classification of the first result.                     *)
(***************************************************************************)
\* status = result[0] if isinstance(result, tuple) and len(result) > 0 else 0
ResultStatus(result) == IF result.kind = "tuple" THEN result.status ELSE 0

\* "captcha" in str(data).lower() or "cloudflare" in str(data).lower(), with
\* data = result[1] if the result is a tuple, else {}
CaptchaLike(result) == result.kind = "tuple" /\ result.marker

\* isinstance(data, dict) and not data.get("result", True)
FailureFlag(result) ==
    LET data_result == IF result.kind = "tuple" THEN result.result ELSE "absent"
    IN  ~Truthy(data_result, TRUE)

\* faulty variant: a result that is not a tuple is taken as a success
RetryNeededTuplesOnly(result) ==
    \/ result.kind = "None"
    \/ /\ result.kind = "tuple"
       /\ (ResultStatus(result) # OK_STATUS \/ FailureFlag(result) \/ CaptchaLike(result))

\* the wrapper retries: result is None, or status != 200, or the failure
\* flag, or a challenge marker in the decoded data
RetryNeeded(result) ==
    \/ result.kind = "None"
    \/ ResultStatus(result) # OK_STATUS
    \/ FailureFlag(result)
    \/ CaptchaLike(result)

(***************************************************************************)
(* Call frames.  A "wrapper" frame is one call of with_retry's wrapper     *)
(* around fn; its pc runs ensure1, call1, classify, ensure2, call2.  A     *)
(* "generate_username" frame is the loop of generate_username.  A "plain"  *)
(* frame records a call that is a single step.                             *)
(* History kept in a frame: calls (invocations of fn, or probes made),     *)
(* resp1 / resp2 (the responses the invocations received), r1 (the first   *)
(* result), ret (the value returned to it, or by it), hist (what the       *)
(* frame did, in order) and fin (how it ended).  The bottom frame of the   *)
(* stack also counts what the whole top-level call did, at any depth:      *)
(* logins (calls of login) and clears (calls of _clear_session_in_redis).  *)
(***************************************************************************)
Frame(kind, fn, pc) ==
    [kind |-> kind, fn |-> fn, pc |-> pc, calls |-> 0, resp1 |-> NoResponse,
     resp2 |-> NoResponse, r1 |-> NoneV, ret |-> NoneV, i |-> 0, suffix |-> 0,
     hist |-> <<>>, fin |-> "running", logins |-> 0, clears |-> 0]

NoFrame == Frame("none", "none", "none")

NoEvent ==
    [act |-> "none", had_scraper |-> FALSE, was_logged_in |-> FALSE,
     store |-> EmptyStore, restored |-> "none", requested |-> FALSE,
     ok |-> FALSE, resp |-> NoResponse]

\* the history of an ensure_login or login step: the client and the store it
\* was called with, what _init_scraper left in is_logged_in if the step ran
\* it, whether the step sent a sign-in request, and the response
SessionEvent(act, requested, ok, resp) ==
    [act |-> act, had_scraper |-> scraper, was_logged_in |-> is_logged_in,
     store |-> redis,
     restored |-> IF scraper THEN "none"
                  ELSE IF InitScraper(Self, now).is_logged_in
                       THEN "authenticated" ELSE "unauthenticated",
     requested |-> requested, ok |-> ok,
     resp |-> IF requested THEN resp ELSE NoResponse]

NoOutcome == [kind |-> "none", err |-> "none", value |-> NoneV, frame |-> NoFrame]

Returned(v, f) ==
    [kind |-> "returned", err |-> "none", value |-> v,
     frame |-> [f EXCEPT !.fin = "returned", !.ret = v]]

Raised(err, f) ==
    [kind |-> "raised", err |-> err, value |-> NoneV,
     frame |-> [f EXCEPT !.fin = "raised"]]

Idle   == stack = <<>>                       \* no call is running
Ready  == Idle /\ outcome.kind = "none"     \* and the last result was taken
Top    == stack[Len(stack)]
Bottom == stack[1]

SetSession(s) ==
    /\ redis' = s.redis
    /\ scraper' = s.scraper
    /\ is_logged_in' = s.is_logged_in

Config == <<SESSION_DURATION_MIN, MAX_SESSION_AGE_HOURS>>
session == <<redis, scraper, is_logged_in>>

\* the stack stk with the login and the clear a step made counted in the
\* bottom frame
Counted(stk, logged, cleared) ==
    [stk EXCEPT ![1].logins = @ + (IF logged THEN 1 ELSE 0),
                ![1].clears = @ + (IF cleared THEN 1 ELSE 0)]

\* the top frame f returns v: to the caller's frame, or out of the call
ReturnValue(f, v) ==
    IF Len(stack) = 1
    THEN /\ stack' = <<>>
         /\ outcome' = Returned(v, f)
    ELSE /\ stack' = [SubSeq(stack, 1, Len(stack) - 1) EXCEPT
                        ![Len(stack) - 1].pc = "got",
                        ![Len(stack) - 1].ret = v]
         /\ outcome' = outcome

\* an exception leaves the top frame: no frame of the model catches one, so
\* it ends the top-level call (the bottom frame is written with what the
\* call had done so far)
RaiseError(err) ==
    /\ stack' = <<>>
    /\ outcome' = Raised(err, IF Len(stack) = 1 THEN NoFrame ELSE Bottom)

(***************************************************************************)
(* Initial state: the client after __init__ (no scraper, not logged in),   *)
(* the configuration read from the environment, and a store holding any    *)
(* part of a record an earlier process left.                               *)
(***************************************************************************)
InitialStores ==
    {EmptyStore}
    \cup { [k \in ks |-> CASE k = REDIS_COOKIES_KEY        -> "jar"
                           [] k = REDIS_SESSION_EXPIRY_KEY -> isoformat(e)
                           [] k = REDIS_LAST_LOGIN_KEY     -> isoformat(0)] :
           ks \in (SUBSET RedisKeys) \ {{}}, e \in DurationChoices }

Init ==
    /\ SESSION_DURATION_MIN \in DurationChoices
    /\ MAX_SESSION_AGE_HOURS \in AgeChoices
    /\ now = 0
    /\ redis \in InitialStores
    /\ scraper = FALSE
    /\ is_logged_in = FALSE
    /\ stack = <<>>
    /\ ev = NoEvent
    /\ lastWrap = NoFrame
    /\ outcome = NoOutcome

\* the clock advances
Tick ==
    /\ outcome.kind = "none"
    /\ now < MaxClockTicks * TickMinutes
    /\ now' = now + TickMinutes
    /\ ev' = NoEvent
    /\ UNCHANGED <<Config, session, stack, lastWrap, outcome>>

(***************************************************************************)
(* Top-level calls of the public methods, made when no call is running.    *)
(***************************************************************************)
\* api.login()
CallLogin ==
    /\ Ready
    /\ \E resp \in SigninResponses :
         LET l == Login(Self, now, resp)
         IN  /\ SetSession(l.sess)
             /\ ev' = SessionEvent("login", TRUE, l.ok, resp)
             /\ outcome' = [Returned(BoolV(l.ok), Frame("plain", "login", "done"))
                              EXCEPT !.err = l.err]
    /\ lastWrap' = NoFrame
    /\ UNCHANGED <<Config, now, stack>>

\* api.ensure_login()
CallEnsureLogin ==
    /\ Ready
    /\ \E resp \in SigninResponsesFor(Self, now) :
         LET e == EnsureLogin(Self, now, resp)
             f == Frame("plain", "ensure_login", "done")
         IN  /\ SetSession(e.sess)
             /\ ev' = SessionEvent("ensure_login", e.requested, e.ok, resp)
             /\ outcome' = IF e.ok THEN Returned(BoolV(TRUE), f)
                                   ELSE Raised("RuntimeError", f)
    /\ lastWrap' = NoFrame
    /\ UNCHANGED <<Config, now, stack>>

\* api.check_email_exists(email): not wrapped; self.scraper.post on a client
\* that has no scraper yet is an AttributeError
CallCheckEmailExists ==
    /\ Ready
    /\ LET f == Frame("plain", "check_email_exists", "done")
       IN  IF ~scraper
           THEN outcome' = Raised("AttributeError", f)
           ELSE \E resp \in StatisticsResponses :
                  LET g == [f EXCEPT !.calls = 1, !.resp1 = resp]
                  IN  outcome' = IF resp.kind = "fault"
                                 THEN Raised("transport", g)
                                 ELSE Returned(CheckEmailExistsResult(resp), g)
    /\ ev' = NoEvent
    /\ lastWrap' = NoFrame
    /\ UNCHANGED <<Config, now, session, stack>>

\* a call of a wrapped operation: deposit_to_player, get_player_balance,
\* check_player_exists, get_player_id_by_login, create_player,
\* create_player_with_credentials
CallWrapped ==
    /\ Ready
    /\ \E fn \in WrappedOps \cup NestingOps :
         stack' = <<Frame("wrapper", fn, "ensure1")>>
    /\ ev' = NoEvent
    /\ lastWrap' = NoFrame
    /\ outcome' = NoOutcome
    /\ UNCHANGED <<Config, now, session>>

\* generate_username(raw_username)
CallGenerateUsername ==
    /\ Ready
    /\ stack' = <<Frame("generate_username", "generate_username", "loop")>>
    /\ ev' = NoEvent
    /\ lastWrap' = NoFrame
    /\ outcome' = NoOutcome
    /\ UNCHANGED <<Config, now, session>>

(***************************************************************************)
(* with_retry's wrapper, step by step, on the top frame.                   *)
(***************************************************************************)
\* self.ensure_login(), before the first attempt and before the retry
WrapperEnsure ==
    /\ ~Idle
    /\ Top.kind = "wrapper"
    /\ Top.pc \in {"ensure1", "ensure2"}
    /\ \E resp \in SigninResponsesFor(Self, now) :
         LET e == EnsureLogin(Self, now, resp)
             did == IF ~e.requested THEN "no_login"
                    ELSE IF e.ok THEN "login_ok" ELSE "login_fail"
             f == [Top EXCEPT !.hist = Append(@, did)]
             stk == Counted([stack EXCEPT ![Len(stack)] = f], e.requested, FALSE)
         IN  /\ SetSession(e.sess)
             /\ ev' = SessionEvent("ensure_login", e.requested, e.ok, resp)
             /\ IF e.ok
                THEN /\ stack' = [stk EXCEPT ![Len(stk)].pc =
                                    IF Top.pc = "ensure1" THEN "call1" ELSE "call2"]
                     /\ UNCHANGED <<lastWrap, outcome>>
                ELSE /\ lastWrap' = [stk[Len(stk)] EXCEPT !.fin = "raised"]
                     /\ stack' = <<>>
                     /\ outcome' = Raised("RuntimeError", stk[1])
    /\ UNCHANGED <<Config, now>>

\* result = func(self, *args, **kwargs): the first attempt
WrapperCall1 ==
    /\ ~Idle
    /\ Top.kind = "wrapper"
    /\ Top.fn \in WrappedOps
    /\ Top.pc = "call1"
    /\ \E resp \in ResponsesOf(Top.fn) :
         LET f == [Top EXCEPT !.calls = @ + 1, !.hist = Append(@, "invoke"),
                              !.resp1 = resp]
         IN  IF resp.kind = "fault"
             THEN /\ lastWrap' = [f EXCEPT !.fin = "raised"]
                  /\ stack' = <<>>
                  /\ outcome' = Raised("transport",
                                       IF Len(stack) = 1 THEN f ELSE Bottom)
             ELSE /\ stack' = [stack EXCEPT ![Len(stack)] =
                                 [f EXCEPT !.pc = "classify",
                                           !.r1 = FuncResult(Top.fn, resp)]]
                  /\ UNCHANGED <<lastWrap, outcome>>
    /\ ev' = NoEvent
    /\ UNCHANGED <<Config, now, session>>

\* the classification of the first result: return it, or clear the session
\* and go on to the retry
WrapperClassify ==
    /\ ~Idle
    /\ Top.kind = "wrapper"
    /\ Top.pc = "classify"
    /\ IF RetryNeeded(Top.r1)
       THEN /\ SetSession(ClearSession(Self))
            /\ stack' = Counted([stack EXCEPT ![Len(stack)] =
                                    [Top EXCEPT !.pc = "ensure2",
                                                !.hist = Append(@, "clear")]],
                                 FALSE, TRUE)
            /\ UNCHANGED <<lastWrap, outcome>>
       ELSE /\ lastWrap' = [Top EXCEPT !.fin = "returned", !.ret = Top.r1]
            /\ ReturnValue(Top, Top.r1)
            /\ UNCHANGED session
    /\ ev' = NoEvent
    /\ UNCHANGED <<Config, now>>

\* faulty variant: the result of the retry is classified again
WrapperCall2Again ==
    /\ ~Idle
    /\ Top.kind = "wrapper"
    /\ Top.fn \in WrappedOps
    /\ Top.pc = "call2"
    /\ \E resp \in ResponsesOf(Top.fn) :
         /\ resp.kind = "http"
         /\ stack' = [stack EXCEPT ![Len(stack)] =
                        [Top EXCEPT !.calls = @ + 1, !.hist = Append(@, "invoke"),
                                    !.pc = "classify",
                                    !.r1 = FuncResult(Top.fn, resp)]]
    /\ ev' = NoEvent
    /\ UNCHANGED <<Config, now, session, lastWrap, outcome>>

\* return func(self, *args, **kwargs): the retry, returned as it is
WrapperCall2 ==
    /\ ~Idle
    /\ Top.kind = "wrapper"
    /\ Top.fn \in WrappedOps
    /\ Top.pc = "call2"
    /\ \E resp \in ResponsesOf(Top.fn) :
         LET f == [Top EXCEPT !.calls = @ + 1, !.hist = Append(@, "invoke"),
                              !.resp2 = resp]
         IN  IF resp.kind = "fault"
             THEN /\ lastWrap' = [f EXCEPT !.fin = "raised"]
                  /\ stack' = <<>>
                  /\ outcome' = Raised("transport",
                                       IF Len(stack) = 1 THEN f ELSE Bottom)
             ELSE /\ lastWrap' = [f EXCEPT !.fin = "returned",
                                           !.ret = FuncResult(Top.fn, resp)]
                  /\ ReturnValue(f, FuncResult(Top.fn, resp))
    /\ ev' = NoEvent
    /\ UNCHANGED <<Config, now, session>>

(***************************************************************************)
(* create_player, the body of a wrapped operation that calls another one:  *)
(* the register request, then self.get_player_id_by_login(login), itself   *)
(* wrapped, then the tuple built from both.                                *)
(* create_player_with_credentials is the same body after a loop: while     *)
(* self.check_email_exists(email), a new email with a random suffix is     *)
(* made.  The frame's pc is call1 / call2 at the test of the loop, email   *)
(* in its body, post after it; i counts the probes of the loop that        *)
(* reported the email as existing, up to MaxEmailProbes (the loop itself   *)
(* has no bound).                                                          *)
(***************************************************************************)
\* while self.check_email_exists(email): the statistics request of the probe
\* (not wrapped, its transport fault propagates) and the test of its answer
CredentialsCheckEmail ==
    /\ ~Idle
    /\ Top.kind = "wrapper"
    /\ Top.fn = "create_player_with_credentials"
    /\ Top.pc \in {"call1", "call2"}
    /\ \E resp \in LookupResponses :
         IF resp.kind = "fault"
         THEN /\ lastWrap' = [Top EXCEPT !.fin = "raised"]
              /\ stack' = <<>>
              /\ outcome' = Raised("transport",
                                   IF Len(stack) = 1 THEN Top ELSE Bottom)
         ELSE /\ stack' = [stack EXCEPT ![Len(stack)] =
                             IF CheckEmailExistsResult(resp).flag
                             THEN [Top EXCEPT !.pc = "email",
                                              !.i = IF @ < MaxEmailProbes
                                                    THEN @ + 1 ELSE @]
                             ELSE [Top EXCEPT !.pc = "post", !.i = 0]]
              /\ UNCHANGED <<lastWrap, outcome>>
    /\ ev' = NoEvent
    /\ UNCHANGED <<Config, now, session>>

\* random_suffix = random.randint(1000, 9999); email = f"{login}_{...}@TSA.com"
CredentialsNewEmail ==
    /\ ~Idle
    /\ Top.kind = "wrapper"
    /\ Top.fn = "create_player_with_credentials"
    /\ Top.pc = "email"
    /\ \E sfx \in 1..MaxSuffix :
         stack' = [stack EXCEPT ![Len(stack)] =
                     [Top EXCEPT !.pc = IF Top.calls = 0 THEN "call1" ELSE "call2",
                                 !.suffix = sfx]]
    /\ ev' = NoEvent
    /\ UNCHANGED <<Config, now, session, lastWrap, outcome>>

\* resp = self.scraper.post(create), data = resp.json() or {}, and the call
\* of get_player_id_by_login
CreatePlayerPost ==
    /\ ~Idle
    /\ Top.kind = "wrapper"
    /\ Top.fn \in NestingOps
    /\ IF Top.fn = "create_player" THEN Top.pc \in {"call1", "call2"}
                                   ELSE Top.pc = "post"
    /\ \E resp \in RegisterResponses :
         LET f0 == [Top EXCEPT !.calls = @ + 1, !.hist = Append(@, "invoke")]
             f  == IF Top.calls = 0 THEN [f0 EXCEPT !.resp1 = resp]
                                    ELSE [f0 EXCEPT !.resp2 = resp]
         IN  IF resp.kind = "fault"
             THEN /\ lastWrap' = [f EXCEPT !.fin = "raised"]
                  /\ stack' = <<>>
                  /\ outcome' = Raised("transport",
                                       IF Len(stack) = 1 THEN f ELSE Bottom)
             ELSE /\ stack' = Append([stack EXCEPT ![Len(stack)] =
                                        [f EXCEPT !.pc = "lookup"]],
                                     Frame("wrapper", "get_player_id_by_login",
                                           "ensure1"))
                  /\ lastWrap' = NoFrame
                  /\ outcome' = outcome
    /\ ev' = NoEvent
    /\ UNCHANGED <<Config, now, session>>

\* player_id = the value returned; return resp.status_code, data, login,
\* pwd, player_id: to the classification when this was the first attempt,
\* to the caller when it was the retry
CreatePlayerGot ==
    /\ ~Idle
    /\ Top.kind = "wrapper"
    /\ Top.fn \in NestingOps
    /\ Top.pc = "got"
    /\ LET v == CreatePlayerResult(IF Top.calls = 1 THEN Top.resp1 ELSE Top.resp2,
                                   Top.ret)
       IN  IF Top.calls = 1
           THEN /\ stack' = [stack EXCEPT ![Len(stack)] =
                               [Top EXCEPT !.pc = "classify", !.r1 = v,
                                           !.ret = NoneV, !.suffix = 0]]
                /\ lastWrap' = NoFrame
                /\ outcome' = outcome
           ELSE /\ lastWrap' = [Top EXCEPT !.fin = "returned", !.ret = v]
                /\ ReturnValue(Top, v)
    /\ ev' = NoEvent
    /\ UNCHANGED <<Config, now, session>>

(***************************************************************************)
(* generate_username: for i in range(6), probe a candidate.                *)
(***************************************************************************)
\* username = base if i == 0 else f"{base}_{_random_suffix()}", then the
\* call api.check_player_exists(username)
GenerateUsernameProbe ==
    /\ ~Idle
    /\ Top.kind = "generate_username"
    /\ Top.pc = "loop"
    /\ Top.i < UsernameAttempts
    /\ \E sfx \in (IF Top.i = 0 THEN {0} ELSE 1..MaxSuffix) :
         stack' = Append([stack EXCEPT ![Len(stack)] =
                            [Top EXCEPT !.pc = "wait", !.suffix = sfx,
                                        !.calls = @ + 1]],
                         Frame("wrapper", "check_player_exists", "ensure1"))
    /\ ev' = NoEvent
    /\ lastWrap' = NoFrame
    /\ UNCHANGED <<Config, now, session, outcome>>

\* faulty variant: the candidate is returned when it exists
GenerateUsernameGotInverted ==
    /\ ~Idle
    /\ Top.kind = "generate_username"
    /\ Top.pc = "got"
    /\ LET f == [Top EXCEPT !.hist = Append(@, IF Top.ret.flag THEN "exists" ELSE "free")]
       IN  IF Top.ret.flag
           THEN ReturnValue(f, NameV(Top.i, Top.suffix))
           ELSE /\ stack' = [stack EXCEPT ![Len(stack)] =
                               [f EXCEPT !.pc = "loop", !.i = @ + 1]]
                /\ outcome' = outcome
    /\ ev' = NoEvent
    /\ lastWrap' = NoFrame
    /\ UNCHANGED <<Config, now, session>>

\* if not api.check_player_exists(username): return username
GenerateUsernameGot ==
    /\ ~Idle
    /\ Top.kind = "generate_username"
    /\ Top.pc = "got"
    /\ LET f == [Top EXCEPT !.hist = Append(@, IF Top.ret.flag THEN "exists" ELSE "free")]
       IN  IF ~Top.ret.flag
           THEN ReturnValue(f, NameV(Top.i, Top.suffix))
           ELSE /\ stack' = [stack EXCEPT ![Len(stack)] =
                               [f EXCEPT !.pc = "loop", !.i = @ + 1]]
                /\ outcome' = outcome
    /\ ev' = NoEvent
    /\ lastWrap' = NoFrame
    /\ UNCHANGED <<Config, now, session>>

\* raise ValueError(...): the loop ran out
GenerateUsernameExhausted ==
    /\ ~Idle
    /\ Top.kind = "generate_username"
    /\ Top.pc = "loop"
    /\ Top.i >= UsernameAttempts
    /\ stack' = <<>>
    /\ outcome' = Raised("ValueError", Top)
    /\ ev' = NoEvent
    /\ UNCHANGED <<Config, now, session, lastWrap>>

\* the caller takes the result of the call that ended: the history of that
\* call is dropped, the client and the store stay as the call left them
TakeResult ==
    /\ Idle
    /\ outcome.kind # "none"
    /\ ev' = NoEvent
    /\ lastWrap' = NoFrame
    /\ outcome' = NoOutcome
    /\ UNCHANGED <<Config, now, session, stack>>

Next ==
    \/ Tick
    \/ TakeResult
    \/ CallLogin
    \/ CallEnsureLogin
    \/ CallCheckEmailExists
    \/ CallWrapped
    \/ CallGenerateUsername
    \/ WrapperEnsure
    \/ WrapperCall1
    \/ WrapperClassify
    \/ WrapperCall2
    \/ CredentialsCheckEmail
    \/ CredentialsNewEmail
    \/ CreatePlayerPost
    \/ CreatePlayerGot
    \/ GenerateUsernameProbe
    \/ GenerateUsernameGot
    \/ GenerateUsernameExhausted

Spec == Init /\ [][Next]_vars

\* the same program under the scheduling of a running interpreter: a step
\* that can be taken is not put off for ever
SpecFair == Init /\ [][Next]_vars /\ WF_vars(Next)

(***************************************************************************)
(* Concurrent callers.  The provisioning flow holds one client object      *)
(* (api = IChancyAPI(), a module global) that every handler calls; nothing *)
(* in the client locks the store or is_logged_in.  Here NumCallers threads *)
(* each run the wrapper around deposit_to_player on that shared client,    *)
(* and the steps of _save_session_to_redis (three sets) and of             *)
(* _clear_session_in_redis (three deletes, then the flag) are taken one    *)
(* Redis command at a time.  stack[k] is the frame of thread k; its pc is  *)
(* idle, ensure1, save_cookies, save_expiry, save_last_login, mark, call1, *)
(* clear_cookies, clear_expiry, clear_last_login, clear_flag, ensure2,     *)
(* call2; its field i holds the time _save_session_to_redis read, and      *)
(* calls the attempts made.                                                *)
(***************************************************************************)
Callers == 1..NumCallers

SavePcs  == {"save_cookies", "save_expiry", "save_last_login", "mark"}
ClearPcs == {"clear_cookies", "clear_expiry", "clear_last_login", "clear_flag"}

\* the answers of the sign-in endpoint drawn for the threads: a fault, an
\* acceptance
ThreadSigninResponses ==
    {TransportFault, Response("http", OK_STATUS, TRUE, FALSE, "true", FALSE, 0)}

\* thread k's frame becomes f
SetThread(k, f) == stack' = [stack EXCEPT ![k] = f]

\* the client has served calls before: it has its scraper, and either no
\* record and no session, or the record of a login at time 0 and its session
InitShared ==
    /\ SESSION_DURATION_MIN \in DurationChoices
    /\ MAX_SESSION_AGE_HOURS \in AgeChoices
    /\ now = 0
    /\ scraper = TRUE
    /\ \/ redis = EmptyStore /\ is_logged_in = FALSE
       \/ redis = SaveSession(EmptyStore, 0) /\ is_logged_in = TRUE
    /\ stack = [k \in Callers |-> Frame("thread", "deposit_to_player", "idle")]
    /\ ev = NoEvent
    /\ lastWrap = NoFrame
    /\ outcome = NoOutcome

\* a thread calls api.deposit_to_player(...)
ThreadCall ==
    \E k \in Callers :
        /\ stack[k].pc = "idle"
        /\ SetThread(k, Frame("thread", "deposit_to_player", "ensure1"))
        /\ ev' = NoEvent
        /\ UNCHANGED <<Config, now, session, lastWrap, outcome>>

\* self.ensure_login(): the test of the flag and of the stored timestamps,
\* and, when it fails, login() up to the response: a success goes on to
\* _save_session_to_redis, which reads the clock; a failure raises
ThreadEnsure ==
    \E k \in Callers :
        /\ stack[k].pc \in {"ensure1", "ensure2"}
        /\ IF is_logged_in /\ IsSessionValid(redis, now)
           THEN /\ SetThread(k, [stack[k] EXCEPT !.pc =
                                   IF @ = "ensure1" THEN "call1" ELSE "call2"])
                /\ ev' = SessionEvent("ensure_login", FALSE, TRUE, NoResponse)
           ELSE \E resp \in ThreadSigninResponses :
                  /\ ev' = SessionEvent("ensure_login", TRUE, LoginSucceeds(resp), resp)
                  /\ IF LoginSucceeds(resp)
                     THEN SetThread(k, [stack[k] EXCEPT !.pc = "save_cookies",
                                                         !.i = now])
                     ELSE SetThread(k, [stack[k] EXCEPT !.pc = "idle",
                                                         !.fin = "raised"])
        /\ UNCHANGED <<Config, now, session, lastWrap, outcome>>

\* self.redis.set(self.REDIS_COOKIES_KEY, cookies_json)
ThreadSaveCookies ==
    \E k \in Callers :
        /\ stack[k].pc = "save_cookies"
        /\ redis' = RedisSet(redis, REDIS_COOKIES_KEY, "jar")
        /\ SetThread(k, [stack[k] EXCEPT !.pc = "save_expiry"])
        /\ ev' = NoEvent
        /\ UNCHANGED <<Config, now, scraper, is_logged_in, lastWrap, outcome>>

\* self.redis.set(self.REDIS_SESSION_EXPIRY_KEY, session_expiry.isoformat())
ThreadSaveExpiry ==
    \E k \in Callers :
        /\ stack[k].pc = "save_expiry"
        /\ redis' = RedisSet(redis, REDIS_SESSION_EXPIRY_KEY,
                             isoformat(stack[k].i + SESSION_DURATION_MIN))
        /\ SetThread(k, [stack[k] EXCEPT !.pc = "save_last_login"])
        /\ ev' = NoEvent
        /\ UNCHANGED <<Config, now, scraper, is_logged_in, lastWrap, outcome>>

\* self.redis.set(self.REDIS_LAST_LOGIN_KEY, now.isoformat())
ThreadSaveLastLogin ==
    \E k \in Callers :
        /\ stack[k].pc = "save_last_login"
        /\ redis' = RedisSet(redis, REDIS_LAST_LOGIN_KEY, isoformat(stack[k].i))
        /\ SetThread(k, [stack[k] EXCEPT !.pc = "mark"])
        /\ ev' = NoEvent
        /\ UNCHANGED <<Config, now, scraper, is_logged_in, lastWrap, outcome>>

\* self.is_logged_in = True, and login and ensure_login return
ThreadMarkLoggedIn ==
    \E k \in Callers :
        /\ stack[k].pc = "mark"
        /\ is_logged_in' = TRUE
        /\ SetThread(k, [stack[k] EXCEPT !.pc = IF stack[k].calls = 0
                                                THEN "call1" ELSE "call2",
                                         !.i = 0])
        /\ ev' = NoEvent
        /\ UNCHANGED <<Config, now, redis, scraper, lastWrap, outcome>>

\* func(self, ...): the first attempt is classified, the retry returned; a
\* transport fault ends the call
ThreadInvoke ==
    \E k \in Callers :
        /\ stack[k].pc \in {"call1", "call2"}
        /\ \E resp \in DepositResponses :
             SetThread(k,
                IF resp.kind = "fault"
                THEN [stack[k] EXCEPT !.pc = "idle", !.fin = "raised"]
                ELSE IF stack[k].pc = "call1" /\ RetryNeeded(DepositResult(resp))
                THEN [stack[k] EXCEPT !.pc = "clear_cookies", !.calls = 1]
                ELSE [stack[k] EXCEPT !.pc = "idle", !.fin = "returned"])
        /\ ev' = NoEvent
        /\ UNCHANGED <<Config, now, session, lastWrap, outcome>>

\* self.redis.delete(self.REDIS_COOKIES_KEY)
ThreadClearCookies ==
    \E k \in Callers :
        /\ stack[k].pc = "clear_cookies"
        /\ redis' = RedisDelete(redis, REDIS_COOKIES_KEY)
        /\ SetThread(k, [stack[k] EXCEPT !.pc = "clear_expiry"])
        /\ ev' = NoEvent
        /\ UNCHANGED <<Config, now, scraper, is_logged_in, lastWrap, outcome>>

\* self.redis.delete(self.REDIS_SESSION_EXPIRY_KEY)
ThreadClearExpiry ==
    \E k \in Callers :
        /\ stack[k].pc = "clear_expiry"
        /\ redis' = RedisDelete(redis, REDIS_SESSION_EXPIRY_KEY)
        /\ SetThread(k, [stack[k] EXCEPT !.pc = "clear_last_login"])
        /\ ev' = NoEvent
        /\ UNCHANGED <<Config, now, scraper, is_logged_in, lastWrap, outcome>>

\* self.redis.delete(self.REDIS_LAST_LOGIN_KEY)
ThreadClearLastLogin ==
    \E k \in Callers :
        /\ stack[k].pc = "clear_last_login"
        /\ redis' = RedisDelete(redis, REDIS_LAST_LOGIN_KEY)
        /\ SetThread(k, [stack[k] EXCEPT !.pc = "clear_flag"])
        /\ ev' = NoEvent
        /\ UNCHANGED <<Config, now, scraper, is_logged_in, lastWrap, outcome>>

\* self.is_logged_in = False, and _clear_session_in_redis returns
ThreadClearFlag ==
    \E k \in Callers :
        /\ stack[k].pc = "clear_flag"
        /\ is_logged_in' = FALSE
        /\ SetThread(k, [stack[k] EXCEPT !.pc = "ensure2"])
        /\ ev' = NoEvent
        /\ UNCHANGED <<Config, now, redis, scraper, lastWrap, outcome>>

NextShared ==
    \/ Tick
    \/ ThreadCall
    \/ ThreadEnsure
    \/ ThreadSaveCookies
    \/ ThreadSaveExpiry
    \/ ThreadSaveLastLogin
    \/ ThreadMarkLoggedIn
    \/ ThreadInvoke
    \/ ThreadClearCookies
    \/ ThreadClearExpiry
    \/ ThreadClearLastLogin
    \/ ThreadClearFlag

SpecShared == InitShared /\ [][NextShared]_vars

(***************************************************************************)
(* Vocabulary of the properties below.  None of it is used by the model:   *)
(* the validity rule is restated here from the data model, so that the     *)
(* properties compare the code with the rule and not with itself.          *)
(***************************************************************************)
\* the with_retry frames there are: those running, and the one that ended last
WrapperFrames ==
    {stack[k] : k \in {j \in 1..Len(stack) : stack[j].kind = "wrapper"}}
    \cup (IF lastWrap.kind = "wrapper" THEN {lastWrap} ELSE {})

HasTimestamps(r) ==
    REDIS_SESSION_EXPIRY_KEY \in DOMAIN r /\ REDIS_LAST_LOGIN_KEY \in DOMAIN r
HasRecord(r)   == DOMAIN r = RedisKeys
ExpiresAt(r)   == r[REDIS_SESSION_EXPIRY_KEY][2]
LastLoginAt(r) == r[REDIS_LAST_LOGIN_KEY][2]
MaxSessionAge  == MAX_SESSION_AGE_HOURS * 60

\* the validity invariant of the Session Record at time t
Invariant(r, t) ==
    HasTimestamps(r) /\ t < ExpiresAt(r) /\ t - LastLoginAt(r) < MaxSessionAge

\* a stored record that the invariant rules out at time t
Stale(r, t) ==
    HasTimestamps(r) /\ (t >= ExpiresAt(r) \/ t - LastLoginAt(r) >= MaxSessionAge)

\* the step just taken was an ensure_login / a sign-in request that succeeded
EnsureActed  == ev.act = "ensure_login"
LoginWritten == ev.requested /\ ev.ok

\* C1: one call of the wrapper invokes the wrapped function at most twice;
\* when the first result is classified as failed and the wrapper returns,
\* it has invoked the function exactly twice and returns the result of the
\* second invocation as it is, failed or not.
C1_AtMostTwoInvocations ==
    \A f \in WrapperFrames :
        /\ f.calls <= 2
        /\ (f.fin = "returned" /\ RetryNeeded(f.r1)) =>
              /\ f.calls = 2
              /\ f.resp2.kind = "http"
              /\ f.fn \in WrappedOps => f.ret = FuncResult(f.fn, f.resp2)
              /\ f.fn \in NestingOps =>
                    f.ret = CreatePlayerResult(f.resp2, IF f.ret.flag THEN PlayerIdV
                                                                     ELSE NoneV)
        /\ (f.fin = "returned" /\ Len(stack) = 0 /\ outcome.frame.kind = "wrapper") =>
              outcome.value = f.ret

\* a retry whose result is itself classified as failed was returned
C1_Witness ==
    /\ lastWrap.fin = "returned"
    /\ lastWrap.calls = 2
    /\ RetryNeeded(lastWrap.ret)
    /\ outcome.kind = "returned"
    /\ outcome.value = lastWrap.ret

\* C2: when the first invocation is classified as failed (a deposit answered
\* with status 403), the wrapper deletes the Session Record, then logs in
\* afresh, then re-invokes the operation once: a second invocation comes
\* only after the deletion and a successful login, in that order.
C2_RetryAfterClearAndLogin ==
    \A f \in WrapperFrames :
        /\ f.calls = 2 =>
              \E first \in {"no_login", "login_ok"} :
                  f.hist = <<first, "invoke", "clear", "login_ok", "invoke">>
        /\ (f.resp1.kind = "http" /\ f.resp1.status = 403 /\ f.pc = "ensure2"
              /\ f.fin = "running") =>
              (DOMAIN redis = {} /\ ~is_logged_in)
        /\ (f.resp1.kind = "http" /\ f.resp1.status = 403 /\ f.fin = "returned") =>
              f.calls = 2

\* a deposit answered 403 was retried and the retry's result returned
C2_Witness ==
    /\ lastWrap.fn = "deposit_to_player"
    /\ lastWrap.resp1.status = 403
    /\ lastWrap.fin = "returned"
    /\ lastWrap.calls = 2

\* C3: ensure_login called on a stored record that is stale at the current
\* time (now >= expires_at or now - last_login_at >= max_session_age) sends
\* a sign-in request, whatever is_logged_in was.
C3_StaleRecordForcesLogin ==
    (EnsureActed /\ Stale(ev.store, now)) => ev.requested

\* ensure_login on an authenticated client whose record is past the maximum
\* age but not past its expiry logged in again
C3_Witness ==
    /\ EnsureActed
    /\ ev.was_logged_in
    /\ HasTimestamps(ev.store)
    /\ now < ExpiresAt(ev.store)
    /\ MAX_SESSION_AGE_HOURS > 0
    /\ now - LastLoginAt(ev.store) >= MaxSessionAge
    /\ ev.requested

\* C4 as stated: every record written by a successful login has
\* last_login_at = now, expires_at = now + session_duration and satisfies
\* the validity invariant at the instant of writing, for every configured
\* session duration and maximum session age.
C4_AsStated ==
    LoginWritten =>
        /\ HasRecord(redis)
        /\ LastLoginAt(redis) = now
        /\ ExpiresAt(redis) = now + SESSION_DURATION_MIN
        /\ Invariant(redis, now)

\* C4, amended: every record written by a successful login has
\* last_login_at = now and expires_at = now + session_duration; it satisfies
\* the validity invariant at the instant of writing when the configured
\* session duration and maximum session age are both positive.
C4_WrittenRecord ==
    LoginWritten =>
        /\ HasRecord(redis)
        /\ LastLoginAt(redis) = now
        /\ ExpiresAt(redis) = now + SESSION_DURATION_MIN
        /\ (SESSION_DURATION_MIN > 0 /\ MAX_SESSION_AGE_HOURS > 0) =>
              Invariant(redis, now)

\* a login succeeded under a positive duration and a positive maximum age,
\* at a time after the start of the clock
C4_Witness ==
    /\ LoginWritten
    /\ SESSION_DURATION_MIN > 0
    /\ MAX_SESSION_AGE_HOURS > 0
    /\ now > 0

\* a sign-in request was just answered with status 200 and a body that
\* decodes to result = true
LoginAnswered200True ==
    /\ ev.requested
    /\ ev.resp.kind = "http"
    /\ ev.resp.status = 200
    /\ ev.resp.json
    /\ ev.resp.result = "true"

\* the three fields of the record a login at the current time writes
FreshRecord ==
    /\ HasRecord(redis)
    /\ redis[REDIS_COOKIES_KEY] = "jar"
    /\ ExpiresAt(redis) = now + SESSION_DURATION_MIN
    /\ LastLoginAt(redis) = now

\* ensure_login, called now, returns without a sign-in request whatever the
\* sign-in endpoint would answer
EnsureWouldNotLogin ==
    \A r \in SigninResponses :
        LET e == EnsureLogin(Self, now, r) IN e.ok /\ ~e.requested /\ e.sess.redis = redis

\* C5 as stated: after a login answered with status 200 and result = true
\* the record is persisted with its three fields, the state is
\* authenticated, and an ensure_login called immediately afterwards returns
\* without a second sign-in request.
C5_AsStated ==
    LoginAnswered200True =>
        (FreshRecord /\ is_logged_in /\ EnsureWouldNotLogin)

\* C5, amended: after a login answered with status 200 and a body with
\* result = true that holds no challenge marker, the record is persisted
\* with its three fields and the state is authenticated; when the
\* configured session duration and maximum session age are both positive,
\* an ensure_login called immediately afterwards returns without a second
\* sign-in request.
C5_LoginThenEnsure ==
    (LoginAnswered200True /\ ~ev.resp.marker) =>
        /\ FreshRecord
        /\ is_logged_in
        /\ (SESSION_DURATION_MIN > 0 /\ MAX_SESSION_AGE_HOURS > 0) =>
              EnsureWouldNotLogin

\* login() was answered 200 / result = true under positive timings, on a
\* store that held no record
C5_Witness ==
    /\ ev.act = "login"
    /\ LoginAnswered200True
    /\ ~ev.resp.marker
    /\ DOMAIN ev.store = {}
    /\ SESSION_DURATION_MIN > 0
    /\ MAX_SESSION_AGE_HOURS > 0

\* C6 as stated: for every wrapped operation and every status, a first
\* response whose body holds a challenge marker is classified as failed:
\* the wrapper does not return the first result, it clears the session and
\* retries.
C6_AsStated ==
    \A f \in WrapperFrames :
        (f.resp1.kind = "http" /\ f.resp1.marker) =>
            ~(f.fin = "returned" /\ f.calls = 1)

\* the last response a frame's requests received
LastResponse(f) == IF f.resp2.kind = "http" THEN f.resp2 ELSE f.resp1

Undecodable(r) == r.kind = "http" /\ ~r.json

\* C7 as stated: when the statistics response fails to decode as JSON,
\* check_email_exists and check_player_exists (the latter through the retry
\* wrapper) return False and do not raise, in every session state and for
\* every outcome of a login the call triggers.
C7_AsStated ==
    (/\ outcome.kind # "none"
     /\ outcome.frame.fn \in {"check_email_exists", "check_player_exists"}
     /\ Undecodable(LastResponse(outcome.frame))) =>
        (outcome.kind = "returned" /\ outcome.value = BoolV(FALSE))

\* a balance response without a non-empty result list
NoBalanceList(r) ==
    r.kind = "http" /\ (~r.json \/ r.result \in {"absent", "empty_list"})

BalanceCallEnded ==
    outcome.kind # "none" /\ outcome.frame.fn = "get_player_balance"

\* C8 as stated: when the balance response has an empty or absent result
\* list, get_player_balance (through the retry wrapper) returns a balance of
\* 0.0 and does not raise, in every session state and for every outcome of
\* a login the call triggers.
C8_AsStated ==
    (BalanceCallEnded /\ NoBalanceList(LastResponse(outcome.frame))) =>
        (outcome.kind = "returned" /\ outcome.value.balance = 0)

\* the balance response was answered with status 200 and an empty result
\* list, the wrapper took the empty list for a failure flag, cleared the
\* session, and the re-login failed: the call raised
C8_Witness ==
    /\ BalanceCallEnded
    /\ outcome.kind = "raised"
    /\ outcome.err = "RuntimeError"
    /\ outcome.frame.resp1.kind = "http"
    /\ outcome.frame.resp1.json
    /\ outcome.frame.resp1.status = OK_STATUS
    /\ outcome.frame.resp1.result = "empty_list"
    /\ outcome.frame.hist[Len(outcome.frame.hist)] = "login_fail"

\* the generate_username frames there are: the one running, the one that ended
GenerateFrames ==
    (IF ~Idle /\ Bottom.kind = "generate_username" THEN {Bottom} ELSE {})
    \cup (IF outcome.frame.kind = "generate_username" THEN {outcome.frame} ELSE {})

AllExist(h, n) == \A k \in 1..n : h[k] = "exists"

\* C9: generate_username probes its candidates in order, the bare name
\* first and suffixed names after it, at most 6 in all; it returns the first
\* candidate reported as not existing, and raises the "username
\* unavailable" error only after 6 candidates were reported as existing.
C9_GenerateUsername ==
    \A g \in GenerateFrames :
        /\ g.calls <= 6
        /\ g.calls = (IF g.pc = "loop" THEN g.i ELSE g.i + 1)
        /\ (g.calls > 0 /\ g.pc # "loop") => (g.i = 0 <=> g.suffix = 0)
        /\ Len(g.hist) <= g.calls
        /\ AllExist(g.hist, Len(g.hist) - 1)
        /\ (g.fin # "returned" /\ Len(g.hist) > 0) => g.hist[Len(g.hist)] = "exists"
        /\ g.fin = "returned" =>
              /\ Len(g.hist) = g.i + 1
              /\ g.hist[Len(g.hist)] = "free"
              /\ g.ret = NameV(g.i, g.suffix)
              /\ outcome.value = g.ret
        /\ (g.fin = "raised" /\ outcome.err = "ValueError") =>
              /\ g.calls = 6
              /\ Len(g.hist) = 6
              /\ AllExist(g.hist, 6)

\* six candidates were reported as existing and the error was raised
C9_Witness ==
    /\ outcome.kind = "raised"
    /\ outcome.err = "ValueError"
    /\ outcome.frame.kind = "generate_username"
    /\ outcome.frame.calls = 6

\* C10 as stated: ensure_login is a no-op (no sign-in request, no store
\* write) when the state is authenticated and the stored record satisfies
\* the invariant; otherwise it calls login once, and when that login fails
\* it raises, so that the wrapper invokes nothing after a failed login.
C10_AsStated ==
    EnsureActed =>
        /\ (ev.was_logged_in /\ Invariant(ev.store, now)) =>
              (~ev.requested /\ redis = ev.store)
        /\ ~(ev.was_logged_in /\ Invariant(ev.store, now)) => ev.requested
        /\ (ev.requested /\ ~LoginSucceeds(ev.resp)) =>
              (Idle /\ outcome.kind = "raised" /\ outcome.err = "RuntimeError")

\* the state ensure_login decides on: is_logged_in, or, on a client that has
\* no scraper yet, what the restore it runs first finds in the store
AuthenticatedAtEnsure ==
    IF ev.had_scraper
    THEN ev.was_logged_in
    ELSE REDIS_COOKIES_KEY \in DOMAIN ev.store /\ Invariant(ev.store, now)

\* C10, amended: ensure_login is a no-op (no sign-in request, no store
\* write) when the stored record satisfies the invariant and the state is
\* authenticated, or the client has no scraper yet and the restore
\* ensure_login then runs finds the cookies of that record; otherwise it
\* calls login once, and when that login fails it raises, so that the
\* wrapper invokes nothing after a failed login.
C10_EnsureLogin ==
    EnsureActed =>
        /\ (AuthenticatedAtEnsure /\ Invariant(ev.store, now)) =>
              (~ev.requested /\ redis = ev.store)
        /\ ~(AuthenticatedAtEnsure /\ Invariant(ev.store, now)) => ev.requested
        /\ (ev.requested /\ ~LoginSucceeds(ev.resp)) =>
              (Idle /\ outcome.kind = "raised" /\ outcome.err = "RuntimeError")

\* the wrapper's ensure_login, on a client without a scraper, restored a
\* valid record and sent no sign-in request
C10_Witness ==
    /\ EnsureActed
    /\ ~ev.had_scraper
    /\ ~ev.requested
    /\ ~Idle
    /\ Top.pc = "call1"

\* the response carries the success flag: a body that decodes to result = true
SuccessFlag(r) == r.kind = "http" /\ r.json /\ r.result = "true"

\* the response is one of the failures of a sign-in request: a transport
\* fault, a challenge page, a body that does not decode, a body without the
\* success flag
SigninFailure(r) ==
    r.kind = "fault" \/ (r.kind = "http" /\ (r.marker \/ ~r.json \/ r.result # "true"))

\* the reason a failed login returns
FailureReason(r) ==
    IF r.kind = "fault" THEN "exception"
    ELSE IF r.marker THEN "captcha_detected"
    ELSE IF ~r.json THEN "invalid_json"
    ELSE "login_failed"

\* a top-level login() just returned
LoginReturned == ev.act = "login" /\ outcome.frame.fn = "login"

\* C11 as stated: login sends one sign-in request; when the response is a
\* challenge page, a body that does not decode, a body without the success
\* flag or a transport fault, it returns a failure value with a reason and
\* leaves the three store keys and the authenticated flag unchanged; only a
\* response with the success flag writes the record and sets the state to
\* authenticated.
C11_AsStated ==
    LoginReturned =>
        /\ ev.requested
        /\ SigninFailure(ev.resp) =>
              /\ outcome.value = BoolV(FALSE)
              /\ outcome.err = FailureReason(ev.resp)
              /\ redis = ev.store
              /\ is_logged_in = ev.was_logged_in
        /\ (redis # ev.store \/ is_logged_in # ev.was_logged_in) =>
              SuccessFlag(ev.resp)

\* the authenticated flag as a login finds it: is_logged_in, or, on a
\* client that has no scraper yet, what the restore it runs first leaves
FlagAtLogin ==
    IF ev.had_scraper THEN ev.was_logged_in ELSE ev.restored = "authenticated"

\* C11, amended: login sends one sign-in request; when the response is a
\* challenge page, a body that does not decode, a body without the success
\* flag or a transport fault, it returns a failure value with a reason and
\* leaves the three store keys unchanged and the authenticated flag as it
\* was, or, on a client that has no scraper yet, as the restore that login
\* runs first set it; only a response with the success flag and without a
\* challenge marker writes the record, and it sets the state to
\* authenticated.
C11_Login ==
    /\ LoginReturned =>
          /\ ev.requested
          /\ SigninFailure(ev.resp) =>
                /\ outcome.value = BoolV(FALSE)
                /\ outcome.err = FailureReason(ev.resp)
    /\ ev.requested =>
          /\ SigninFailure(ev.resp) =>
                /\ ~ev.ok
                /\ redis = ev.store
                /\ is_logged_in = FlagAtLogin
          /\ redis # ev.store => (SuccessFlag(ev.resp) /\ ~ev.resp.marker)
          /\ (SuccessFlag(ev.resp) /\ ~ev.resp.marker) =>
                (ev.ok /\ FreshRecord /\ is_logged_in)

\* a login on an authenticated client with a stored record was answered
\* with a challenge page and returned its failure
C11_Witness ==
    /\ LoginReturned
    /\ ev.had_scraper
    /\ ev.was_logged_in
    /\ HasRecord(ev.store)
    /\ ev.resp.kind = "http"
    /\ ev.resp.marker
    /\ ~ev.ok

\* a top-level call of an operation of the Remote Operation Set has ended
RemoteOperationEnded ==
    /\ outcome.kind # "none"
    /\ outcome.frame.kind = "wrapper" \/ outcome.frame.fn = "check_email_exists"

\* C12 as stated: the faults of a remote call are converted to default
\* values or result tuples inside the operation and the wrapper; the only
\* exception that reaches the caller of a remote operation is the fatal
\* error of a session that could not be established.
C12_AsStated ==
    (RemoteOperationEnded /\ outcome.kind = "raised") =>
        outcome.err = "RuntimeError"

\* the request of the first attempt of a deposit met a transport fault,
\* which left the call as an exception
C12_Witness ==
    /\ RemoteOperationEnded
    /\ outcome.kind = "raised"
    /\ outcome.err = "transport"
    /\ outcome.frame.fn = "deposit_to_player"
    /\ outcome.frame.calls = 1
    /\ outcome.frame.resp1.kind = "fault"

\* no thread is inside _save_session_to_redis or _clear_session_in_redis
NoSaveOrClearInProgress ==
    \A k \in DOMAIN stack :
        stack[k].kind = "thread" => stack[k].pc \notin SavePcs \cup ClearPcs

\* C13 as stated: the Session Record is never partially updated: whenever
\* no save and no invalidate is in progress, the store holds all three
\* fields or none, for any interleaving of the callers' save and delete
\* steps, failed logins included.
C13_AsStated ==
    NoSaveOrClearInProgress => (DOMAIN redis = {} \/ DOMAIN redis = RedisKeys)

\* every thread is idle and the store holds the two timestamps of a record
\* without its cookies
C13_Witness ==
    /\ \A k \in DOMAIN stack : stack[k].kind = "thread" /\ stack[k].pc = "idle"
    /\ DOMAIN redis = {REDIS_SESSION_EXPIRY_KEY, REDIS_LAST_LOGIN_KEY}

\* C14 as stated: a session is usable only if the three fields of the
\* record are present and the invariant holds: when one of the three
\* fields is absent from the store, ensure_login does not return without a
\* login, and restore does not mark the state authenticated.
C14_AsStated ==
    (ev.act \in {"ensure_login", "login"} /\ ~HasRecord(ev.store)) =>
        /\ ev.act = "ensure_login" => ev.requested
        /\ ev.restored # "authenticated"

\* ensure_login returned without a login while the store held the two
\* timestamps of a record and no cookies
C14_Witness ==
    /\ EnsureActed
    /\ ~ev.requested
    /\ ev.ok
    /\ DOMAIN ev.store = {REDIS_SESSION_EXPIRY_KEY, REDIS_LAST_LOGIN_KEY}

\* the frames of the public methods that send requests to a business
\* endpoint: the with_retry frames, and the check_email_exists call that ended
RequestFrames ==
    WrapperFrames
    \cup (IF outcome.frame.fn = "check_email_exists" THEN {outcome.frame} ELSE {})

\* C15 as stated: the retry contract applies to every remote operation:
\* every request a public method sends to a business endpoint,
\* check_email_exists included, is preceded within the same call by an
\* ensure_login that returned, and a failed first answer is retried once.
C15_AsStated ==
    \A f \in RequestFrames :
        /\ f.calls > 0 =>
              (Len(f.hist) > 0 /\ f.hist[1] \in {"no_login", "login_ok"})
        /\ (f.fin = "returned" /\ f.resp1.kind = "http" /\ f.resp1.status # OK_STATUS) =>
              f.calls = 2

\* check_email_exists sent its request on a client that was not
\* authenticated, was answered with status 403, and returned its answer
\* with no login and no retry
C15_Witness ==
    /\ outcome.kind = "returned"
    /\ outcome.frame.fn = "check_email_exists"
    /\ outcome.frame.calls = 1
    /\ outcome.frame.resp1.status = 403
    /\ outcome.frame.hist = <<>>
    /\ ~is_logged_in

\* the memory of the authenticated flag after restore ran in the step just
\* taken, when that step left it as restore set it: the step sent no
\* sign-in request, or the login it made failed
FlagLeftByRestore ==
    /\ ev.act \in {"ensure_login", "login"}
    /\ ~ev.had_scraper
    /\ (~ev.requested \/ ~ev.ok)

\* C16: restore (_init_scraper) marks the state authenticated if and only
\* if a Session Record is present in the store (all three fields) and valid
\* per the invariant; in every other case it marks the state
\* unauthenticated; in all cases it leaves the three store keys unchanged.
C16_Restore ==
    /\ (ev.act \in {"ensure_login", "login"} /\ ~ev.had_scraper) =>
          /\ scraper
          /\ ev.restored \in {"authenticated", "unauthenticated"}
          /\ ev.restored = "authenticated" <=>
                (HasRecord(ev.store) /\ Invariant(ev.store, now))
    /\ FlagLeftByRestore =>
          /\ is_logged_in = (ev.restored = "authenticated")
          /\ redis = ev.store
    /\ ~scraper =>
          /\ InitScraper(Self, now).redis = redis
          /\ InitScraper(Self, now).is_logged_in =
                (HasRecord(redis) /\ Invariant(redis, now))

\* restore found the two timestamps of a valid record without its cookies
\* and marked the state unauthenticated; the login that followed failed and
\* the store was left as it was
C16_Witness ==
    /\ FlagLeftByRestore
    /\ ev.requested
    /\ DOMAIN ev.store = {REDIS_SESSION_EXPIRY_KEY, REDIS_LAST_LOGIN_KEY}
    /\ Invariant(ev.store, now)
    /\ ev.restored = "unauthenticated"
    /\ ~is_logged_in
    /\ redis = ev.store

\* the wrapper on top of the stack has just run _clear_session_in_redis
JustCleared ==
    /\ ~Idle
    /\ Top.kind = "wrapper"
    /\ Top.pc = "ensure2"
    /\ Top.hist[Len(Top.hist)] = "clear"

\* C17: invalidate (_clear_session_in_redis) removes the three fields of the
\* record from the store and sets the state to unauthenticated, and is
\* idempotent: from every state, applied twice in a row it yields the store
\* and the in-process state it yields applied once, and applied when no
\* record exists it does not fail.
C17_Invalidate ==
    /\ LET once == ClearSession(Self)
       IN  /\ DOMAIN once.redis \cap RedisKeys = {}
           /\ ~once.is_logged_in
           /\ once.scraper = scraper
           /\ ClearSession(once) = once
    /\ JustCleared =>
          /\ DOMAIN redis \cap RedisKeys = {}
          /\ ~is_logged_in
          /\ ClearSession(Self) = Self

\* the wrapper cleared the session after a first attempt that had been
\* made on an authenticated client with a stored record
C17_Witness ==
    /\ JustCleared
    /\ Top.hist = <<"no_login", "invoke", "clear">>
    /\ DOMAIN redis = {}
    /\ ~is_logged_in

\* the state of the Session Lifecycle Manager
SessionState ==
    IF ~scraper THEN "no_session"
    ELSE IF is_logged_in THEN "authenticated" ELSE "unauthenticated"

SessionStateNext ==
    IF ~scraper' THEN "no_session"
    ELSE IF is_logged_in' THEN "authenticated" ELSE "unauthenticated"

\* the step is a successful login
LoginSucceededInStep == ev'.requested /\ ev'.ok

\* the transitions listed: restore fails, login succeeds (also both within
\* one call on a fresh client), invalidate
ListedTransition ==
    \/ /\ SessionState = "no_session"
       /\ SessionStateNext = "unauthenticated"
       /\ ev'.restored = "unauthenticated"
    \/ /\ SessionState = "no_session"
       /\ SessionStateNext = "authenticated"
       /\ ev'.restored = "unauthenticated"
       /\ LoginSucceededInStep
    \/ /\ SessionState = "unauthenticated"
       /\ SessionStateNext = "authenticated"
       /\ LoginSucceededInStep
    \/ /\ SessionState = "authenticated"
       /\ SessionStateNext = "unauthenticated"
       /\ DOMAIN redis' = {}

\* restore finds a present and valid record: no_session to authenticated
RestoreSucceedsTransition ==
    /\ SessionState = "no_session"
    /\ SessionStateNext = "authenticated"
    /\ ev'.restored = "authenticated"
    /\ HasRecord(redis) /\ Invariant(redis, now)

\* C18 as stated: the in-process session state starts as no_session and
\* changes only along the listed transitions: no_session to unauthenticated
\* when restore fails, unauthenticated to authenticated when login
\* succeeds, authenticated to unauthenticated on invalidate; authenticated
\* is entered only from unauthenticated by a successful login.
C18_AsStated ==
    /\ SessionState = "no_session"
    /\ [][SessionStateNext # SessionState => ListedTransition]_vars

\* C18, amended: the in-process session state starts as no_session and
\* changes only along the listed transitions and one more, no_session to
\* authenticated when restore finds a present and valid record;
\* authenticated is entered only by a successful login or by such a restore,
\* and left only by invalidate.
C18_StateMachine ==
    /\ SessionState = "no_session"
    /\ [][SessionStateNext # SessionState =>
             (ListedTransition \/ RestoreSucceedsTransition)]_vars

\* the first ensure_login of a fresh client restored a valid record: the
\* state is authenticated and no sign-in request was sent
C18_Witness ==
    /\ ev.act = "ensure_login"
    /\ ~ev.had_scraper
    /\ ev.restored = "authenticated"
    /\ ~ev.requested
    /\ SessionState = "authenticated"

\* the first response of the frame is a plain success: status 200, a body
\* that decodes, no failure flag, no challenge marker, and the operation
\* made a result other than None of it
PlainSuccess(f) ==
    /\ f.resp1.kind = "http"
    /\ f.resp1.status = OK_STATUS
    /\ f.resp1.json
    /\ ~f.resp1.marker
    /\ f.resp1.result \in {"true", "list", "records"}
    /\ f.pc \notin {"ensure1", "call1", "email", "post", "lookup", "got"}
    /\ f.r1.kind # "None"

\* C19 as stated: for every wrapped operation, those that return a bare
\* value included, a first response that is a plain success makes the
\* wrapper invoke the operation once: it does not delete the record, does
\* not log in again, and returns the first result.
C19_AsStated ==
    \A f \in WrapperFrames :
        PlainSuccess(f) =>
            /\ f.calls = 1
            /\ f.hist \in {<<"no_login", "invoke">>, <<"login_ok", "invoke">>}
            /\ f.fin = "returned" => f.ret = f.r1

\* check_player_exists found the login in a listing answered with status
\* 200, and the wrapper cleared the session, logged in again and invoked
\* it a second time
C19_Witness ==
    /\ lastWrap.fn = "check_player_exists"
    /\ PlainSuccess(lastWrap)
    /\ lastWrap.r1 = BoolV(TRUE)
    /\ lastWrap.hist = <<"no_login", "invoke", "clear", "login_ok", "invoke">>
    /\ lastWrap.fin = "returned"

\* the top-level calls of remote operations there are: the one running, the
\* one that ended (their frames count the logins and the clears of the call)
TopLevelCalls ==
    (IF ~Idle /\ Bottom.kind = "wrapper" THEN {Bottom} ELSE {})
    \cup (IF outcome.frame.kind = "wrapper" THEN {outcome.frame} ELSE {})

\* C20 as stated: one top-level call of a remote operation, create_player
\* included, performs at most two logins and deletes the Session Record at
\* most once.
C20_AsStated ==
    \A f \in TopLevelCalls : f.logins <= 2 /\ f.clears <= 1

\* under a positive session duration and maximum age, one call of
\* create_player returned after four logins and three deletions
C20_Witness ==
    /\ SESSION_DURATION_MIN > 0
    /\ MAX_SESSION_AGE_HOURS > 0
    /\ outcome.kind = "returned"
    /\ outcome.frame.fn = "create_player"
    /\ outcome.frame.logins = 4
    /\ outcome.frame.clears = 3

\* a top-level call of the operation fn is running
Running(fn) == ~Idle /\ Bottom.kind = "wrapper" /\ Bottom.fn = fn

\* C21 as stated: every call of create_player_with_credentials terminates
\* after a bounded number of remote requests, for every behaviour of the
\* remote service, one whose email-existence query reports every probed
\* email as existing included.
C21_AsStated ==
    Running("create_player_with_credentials") ~>
        ~Running("create_player_with_credentials")

\* the email loop of create_player_with_credentials was told MaxEmailProbes
\* times that the email exists and is about to probe again
C21_Witness ==
    /\ Running("create_player_with_credentials")
    /\ Top.fn = "create_player_with_credentials"
    /\ Top.pc = "call1"
    /\ Top.i = MaxEmailProbes
    /\ Top.suffix > 0

====
